---------------------------- MODULE Spec2Model ----------------------------
(***************************************************************************)
(* RiskRadar event exporter (src/app/export_events.py).                    *)
(*                                                                         *)
(* Numbers are fixed-point integers:                                       *)
(*   fire latitude/longitude    hundredths of a degree (grid: tenths)      *)
(*   brightness, frp            hundredths (records: tenths)               *)
(*   earthquake lat/lon         1e-5 degree (records: 1e-4)                *)
(*   magnitude, depth           hundredths (records: tenths)               *)
(* A timestamp is a number of ticks, a calendar date a number of days.     *)
(* Strings that the code inspects character by character are sequences of  *)
(* one-character strings.                                                  *)
(***************************************************************************)
EXTENDS Integers, Sequences, FiniteSets

VARIABLES
    pc,            \* position of the run inside main() / the function under test
    now,           \* the UTC clock, in ticks (TicksPerDay ticks a day)
    failure,       \* stage whose exception ended the run, "none" otherwise
    value,         \* argument of _confidence_rank
    rank,          \* its return value (NoRank before the call)
    firmsData,     \* firms_client._data: None or a sequence of detections
    cutoff_date,   \* export_fire_events: cutoff_date
    recent_fires,  \* export_fire_events: recent_fires
    fires,         \* list returned by export_fire_events
    usgsSource,    \* what usgs_client.get_global_earthquakes answers
    quakes_raw,    \* export_earthquake_events: quakes_raw
    earthquakes,   \* list returned by export_earthquake_events
    end_date,      \* main: end_date (NaT before line 230)
    output,        \* main: output
    file,          \* the file at Config.EVENTS_OUTPUT_FILE
    opened         \* whether main ever opened the output file

vars == <<pc, now, failure, value, rank, firmsData, cutoff_date, recent_fires,
          fires, usgsSource, quakes_raw, earthquakes, end_date, output, file,
          opened>>

\* Python values that the code tells apart by type are tagged records.
None == [t |-> "none"]

NaN == [t |-> "nan"]

Num(n) == [t |-> "num", v |-> n]

Str(s) == [t |-> "str", s |-> s]

NoRank == "unset"

\* pandas NaT / a date not yet computed
NaT == -1

\* The output file before the run: whatever an earlier run left there.
OldFile == [content |-> "old", chunks |-> 0]

-----------------------------------------------------------------------------
(* Generic helpers                                                          *)

Abs(x) == IF x < 0 THEN -x ELSE x

Range(s) == {s[i] : i \in DOMAIN s}

SetMax(S) == CHOOSE x \in S : \A y \in S : y <= x

SetMin(S) == CHOOSE x \in S : \A y \in S : x <= y

RECURSIVE SeqSum(_)
SeqSum(s) == IF s = <<>> THEN 0 ELSE Head(s) + SeqSum(Tail(s))

SeqsUpTo(S, n) == UNION {[1..k -> S] : k \in 0..n}

\* Nearest integer to n/d (d > 0), ties upwards.
RoundHalfUp(n, d) ==
    LET q == n \div d
        r == n % d
    IN  IF 2 * r >= d THEN q + 1 ELSE q

\* Nearest integer to n/d (d > 0), ties to the even integer.
RoundHalfEven(n, d) ==
    LET q == n \div d
        r == n % d
    IN  IF 2 * r < d THEN q
        ELSE IF 2 * r > d THEN q + 1
        ELSE IF q % 2 = 0 THEN q ELSE q + 1

-----------------------------------------------------------------------------
(* Strings: str.strip(), str.lower(), float(str)                            *)

Whitespace == {" "}

Digits == {"0", "1", "2", "3", "4", "5", "6", "7", "8", "9"}

DigitVal(c) ==
    CASE c = "0" -> 0 [] c = "1" -> 1 [] c = "2" -> 2 [] c = "3" -> 3
      [] c = "4" -> 4 [] c = "5" -> 5 [] c = "6" -> 6 [] c = "7" -> 7
      [] c = "8" -> 8 [] c = "9" -> 9

LowerChar(c) ==
    CASE c = "H" -> "h" [] c = "I" -> "i" [] c = "G" -> "g" [] c = "N" -> "n"
      [] c = "O" -> "o" [] c = "M" -> "m" [] c = "A" -> "a" [] c = "L" -> "l"
      [] c = "W" -> "w" [] c = "X" -> "x"
      [] OTHER -> c

Lower(s) == [i \in DOMAIN s |-> LowerChar(s[i])]

RECURSIVE LStrip(_)
LStrip(s) ==
    IF s # <<>> /\ Head(s) \in Whitespace THEN LStrip(Tail(s)) ELSE s

RECURSIVE RStrip(_)
RStrip(s) ==
    IF s # <<>> /\ s[Len(s)] \in Whitespace
    THEN RStrip(SubSeq(s, 1, Len(s) - 1)) ELSE s

Strip(s) == RStrip(LStrip(s))

RECURSIVE DigitsVal(_)
DigitsVal(s) ==
    IF s = <<>> THEN 0
    ELSE 10 * DigitsVal(SubSeq(s, 1, Len(s) - 1)) + DigitVal(s[Len(s)])

\* float(s) for a string over the characters used here: surrounding
\* whitespace is ignored, an optional sign, then decimal digits or "nan".
\* Anything else raises ValueError.
ParseFloat(s) ==
    LET t == Strip(s)
        signed == t # <<>> /\ Head(t) \in {"-", "+"}
        body == IF signed THEN Tail(t) ELSE t
    IN  IF body # <<>> /\ \A i \in DOMAIN body : body[i] \in Digits
        THEN [ok |-> TRUE,
              f |-> IF signed /\ Head(t) = "-" THEN Num(-DigitsVal(body))
                    ELSE Num(DigitsVal(body))]
        ELSE IF Lower(body) = <<"n", "a", "n">>
        THEN [ok |-> TRUE, f |-> NaN]
        ELSE [ok |-> FALSE, f |-> NaN]

-----------------------------------------------------------------------------
(* _confidence_rank                                                         *)

ThresholdNominal == 30

ThresholdHigh == 80

CONFIDENCE_LABELS(r) ==
    CASE r = 0 -> "low" [] r = 1 -> "nominal" [] r = 2 -> "high"

\* (faulty variant: the thresholds excluded)
ScoreRankStrict(score) ==
    IF score.t = "nan" THEN 0
    ELSE IF score.v > ThresholdHigh THEN 2
    ELSE IF score.v > ThresholdNominal THEN 1
    ELSE 0

\* lines 58-66: the numeric rule (every comparison with NaN is false)
ScoreRank(score) ==
    IF score.t = "nan" THEN 0
    ELSE IF score.v >= ThresholdHigh THEN 2
    ELSE IF score.v >= ThresholdNominal THEN 1
    ELSE 0

\* line 47
Normalize(s) == Lower(Strip(s))

_confidence_rank(v) ==
    IF v.t \in {"none", "nan"} THEN 0
    ELSE IF v.t = "str" THEN
        LET normalized == Normalize(v.s)
        IN  IF normalized \in {<<"h", "i", "g", "h">>, <<"h">>} THEN 2
            ELSE IF normalized \in {<<"n", "o", "m", "i", "n", "a", "l">>, <<"n">>} THEN 1
            ELSE IF normalized \in {<<"l", "o", "w">>, <<"l">>} THEN 0
            ELSE IF ParseFloat(normalized).ok
                 THEN ScoreRank(ParseFloat(normalized).f)
                 ELSE 0
    ELSE ScoreRank(v)

-----------------------------------------------------------------------------
(* Dates                                                                    *)

TicksPerDay == 2

EVENT_HISTORY_DAYS == 90

\* datetime.date() / Series.dt.date: the calendar date of a timestamp
DateOf(ts) == ts \div TicksPerDay

\* datetime - timedelta(days=days)
MinusDays(ts, days) == ts - days * TicksPerDay

\* _format_date of a pandas Timestamp (a datetime): the calendar date alone;
\* the ISO text of a date is modelled by its day number, which orders alike.
_format_date(v) == IF v = NaT THEN "" ELSE DateOf(v)

-----------------------------------------------------------------------------
(* export_fire_events                                                       *)

Frame(rows) == [t |-> "frame", rows |-> rows]

\* (x * 10).round() / 10 on hundredths of a degree, giving tenths; numpy
\* rounds half to even (faulty variant: half up).
GridHalfUp(c) == RoundHalfUp(c, 10)

Grid(c) == RoundHalfEven(c, 10)

GridKey(row) == <<Grid(row.latitude), Grid(row.longitude)>>

KeyLE(a, b) == a[1] < b[1] \/ (a[1] = b[1] /\ a[2] <= b[2])

\* groupby sorts the group keys
RECURSIVE SortKeys(_)
SortKeys(K) ==
    IF K = {} THEN <<>>
    ELSE LET m == CHOOSE k \in K : \A j \in K : KeyLE(k, j)
         IN  <<m>> \o SortKeys(K \ {m})

\* line 100
Cutoff(nowv, days) == DateOf(MinusDays(nowv, days))

\* lines 101-103 (faulty variant: compares the timestamps,
\* time of day included)
RecentByTimestamp(rows, nowv, days) ==
    SelectSeq(rows, LAMBDA r : r.acq_date >= MinusDays(nowv, days))

Recent(rows, nowv, days) ==
    SelectSeq(rows, LAMBDA r : DateOf(r.acq_date) >= Cutoff(nowv, days))

Members(rows, key) == {i \in DOMAIN rows : GridKey(rows[i]) = key}

\* 'confidence_rank': 'max' (faulty variant: min)
RankMin(rows, g) == SetMin({_confidence_rank(rows[i].confidence) : i \in g})

RankMax(rows, g) == SetMax({_confidence_rank(rows[i].confidence) : i \in g})

\* 'frp': 'max' skips NaN and is NaN when every member's frp is
FrpMax(rows, g) ==
    LET present == {rows[i].frp.v : i \in {j \in g : rows[j].frp.t = "num"}}
    IN  IF present = {} THEN NaN ELSE Num(SetMax(present))

\* 'brightness': 'count' (faulty variant: a constant 1). Every detection carries a
\* brightness, so the count of the column is the size of the group.
CountOne(g) == 1

Count(g) == Cardinality(g)

RECURSIVE SumOver(_, _)
SumOver(rows, g) ==
    IF g = {} THEN 0
    ELSE LET i == CHOOSE j \in g : TRUE
         IN  rows[i].brightness + SumOver(rows, g \ {i})

\* lines 117-145: one record per group
FireRecord(rows, key) ==
    LET g == Members(rows, key)
        frp_max == FrpMax(rows, g)
    IN  [lat |-> key[1],
         lon |-> key[2],
         date |-> _format_date(SetMax({rows[i].acq_date : i \in g})),
         date_first |-> _format_date(SetMin({rows[i].acq_date : i \in g})),
         brightness |-> RoundHalfEven(SetMax({rows[i].brightness : i \in g}), 10),
         brightness_avg |-> RoundHalfEven(SumOver(rows, g), 10 * Count(g)),
         frp |-> IF frp_max.t = "num" THEN Num(RoundHalfEven(frp_max.v, 10)) ELSE None,
         count |-> Count(g),
         confidence |-> CONFIDENCE_LABELS(RankMax(rows, g))]

Aggregate(rows) ==
    LET keys == SortKeys({GridKey(rows[i]) : i \in DOMAIN rows})
    IN  [k \in DOMAIN keys |-> FireRecord(rows, keys[k])]

\* The whole of export_fire_events(firms_client, days) at clock nowv:
\* its locals cutoff_date and recent_fires, and the list it returns.
export_fire_events(data, nowv, days) ==
    IF data.t = "none" \/ Len(data.rows) = 0
    THEN [cutoff_date |-> NaT, recent_fires |-> <<>>, fires |-> <<>>]
    ELSE LET recent == Recent(data.rows, nowv, days)
         IN  [cutoff_date |-> Cutoff(nowv, days),
              recent_fires |-> recent,
              fires |-> IF Len(recent) = 0 THEN <<>> ELSE Aggregate(recent)]

-----------------------------------------------------------------------------
(* export_earthquake_events                                                 *)

\* A key the raw record does not hold.
Missing == [t |-> "missing"]

UnknownPlace == Str(<<"U", "n", "k", "n", "o", "w", "n">>)

EarthquakeType == Str(<<"e", "a", "r", "t", "h", "q", "u", "a", "k", "e">>)

EmptyStr == Str(<<>>)

\* dict.get(key, default): the default only when the key is absent
Get(quake, key, default) ==
    IF quake[key] = Missing THEN default ELSE quake[key]

\* float(x): a number as it is, a string parsed (ValueError when it does
\* not parse), None a TypeError.
PyFloat(v) ==
    CASE v.t \in {"num", "nan"} -> [ok |-> TRUE, f |-> v]
      [] v.t = "str" -> ParseFloat(v.s)
      [] OTHER -> [ok |-> FALSE, f |-> NaN]

\* round(float(x), digits) for x held with one more decimal than digits
Round1(f) == IF f.t = "nan" THEN NaN ELSE Num(RoundHalfEven(f.v, 10))

\* A number given as a string holds whole units, not the fixed-point
\* fraction: float("3") is 3.0.
Scaled(v, units) ==
    IF v.t = "str" /\ PyFloat(v).ok /\ PyFloat(v).f.t = "num"
    THEN [ok |-> TRUE, f |-> Num(PyFloat(v).f.v * units)]
    ELSE PyFloat(v)

NumericKeys == {"latitude", "longitude", "mag", "depth_km"}

\* lines 183-191: the floats of one record, each ok or raising
Floats(quake) ==
    [k \in NumericKeys |->
        Scaled(Get(quake, k, Num(0)),
               IF k \in {"latitude", "longitude"} THEN 100000 ELSE 100)]

Converts(quake) == \A k \in NumericKeys : Floats(quake)[k].ok

Earthquake(quake) ==
    [lat |-> Round1(Floats(quake)["latitude"].f),
     lon |-> Round1(Floats(quake)["longitude"].f),
     date |-> Get(quake, "time", EmptyStr),
     magnitude |-> Round1(Floats(quake)["mag"].f),
     depth |-> Round1(Floats(quake)["depth_km"].f),
     place |-> Get(quake, "place", UnknownPlace),
     type |-> Get(quake, "type", EarthquakeType)]

-----------------------------------------------------------------------------
(* main                                                                     *)

\* min(..., default=0) and max(..., default=0) over a list of numbers, and
\* {"min": 0, "max": 0} for an empty list (faulty variant: the first and the last)
FirstLast(values) ==
    IF values = <<>> THEN [min |-> 0, max |-> 0]
    ELSE [min |-> values[1], max |-> values[Len(values)]]

ValueRange(values) ==
    IF values = <<>> THEN [min |-> 0, max |-> 0]
    ELSE [min |-> SetMin(Range(values)), max |-> SetMax(Range(values))]

\* round(float(...), 1) of a magnitude that is a number
Magnitudes(quakes) == [i \in DOMAIN quakes |-> quakes[i].magnitude.v]

Brightnesses(fs) == [i \in DOMAIN fs |-> fs[i].brightness]

\* lines 234-255
Document(fs, quakes, end, generated) ==
    [generated_at |-> generated,
     data_range |-> [start |-> DateOf(MinusDays(end, EVENT_HISTORY_DAYS)),
                     end |-> DateOf(end),
                     days |-> EVENT_HISTORY_DAYS],
     statistics |-> [total_fires |-> Len(fs),
                     total_earthquakes |-> Len(quakes),
                     fire_brightness_range |-> ValueRange(Brightnesses(fs)),
                     earthquake_magnitude_range |-> ValueRange(Magnitudes(quakes))],
     fires |-> fs,
     earthquakes |-> quakes]

\* The pieces json.dump writes one after the other: the head of the
\* document, then one per record.
DocChunks(doc) == 1 + Len(doc.fires) + Len(doc.earthquakes)

-----------------------------------------------------------------------------
(* Inputs of the confidence resolver                                        *)

MaxStrLen == 2

MaxScore == 101

Alphabet == {"h", "H", "n", "N", "l", "L", " ", "3", "8", "0", "9", "-", "x"}

Words ==
    { <<"h", "i", "g", "h">>, <<"H", "I", "G", "H">>, <<"H", "i", "g", "h">>,
      <<" ", "h", "i", "g", "h", " ">>, <<"h", "i", "g", "h", "x">>,
      <<"n", "o", "m", "i", "n", "a", "l">>, <<"N", "O", "M", "I", "N", "A", "L">>,
      <<"n", "o", "m", "i", "n", "a", "l", " ">>,
      <<"l", "o", "w">>, <<"L", "o", "w">>, <<" ", "L", "O", "W">>,
      <<"n", "a", "n">>, <<"N", "a", "N">>,
      <<"1", "0", "0">>, <<"-", "3", "0">>, <<"+", "8", "0">>,
      <<" ", "7", "9", " ">>, <<"8", "0", "x">>, <<"3", " ", "0">> }

ConfStrings == SeqsUpTo(Alphabet, MaxStrLen) \cup Words

ConfInputs ==
    {None, NaN} \cup {Num(n) : n \in -1..MaxScore} \cup {Str(s) : s \in ConfStrings}

-----------------------------------------------------------------------------
(* Inputs of the fire aggregator                                            *)

MaxFires == 3

Today == 100

\* First tick of a day.
DayStart(d) == d * TicksPerDay

CutDay == Today - EVENT_HISTORY_DAYS

Row(lat, lon, ts, b, frp, conf) ==
    [latitude |-> lat, longitude |-> lon, acq_date |-> ts, brightness |-> b,
     frp |-> frp, confidence |-> conf]

\* Detections of today around the boundary between the cells 12.3 and 12.4
\* (12.35 and 12.45 are ties), with a low, a nominal and a high score.
GridRows ==
    {Row(lat, 5678, DayStart(Today), 30000 + 7 * c, NaN, Num(c)) :
        lat \in {1234, 1235, 1236, 1245}, c \in {20, 50, 90}}

\* Another longitude cell, a southern latitude, and detections at both ends
\* of the cutoff day and at the end of the day before it.
EdgeRows ==
    { Row(1234, 5686, DayStart(Today), 30512, Num(1255), Str(<<"h">>)),
      Row(-1235, 5678, DayStart(Today) - 1, 29875, NaN, None),
      Row(1234, 5678, DayStart(CutDay), 31045, Num(845), Num(90)),
      Row(1236, 5678, DayStart(CutDay) + TicksPerDay - 1, 31155, NaN, Num(20)),
      Row(1234, 5678, DayStart(CutDay) - 1, 35000, Num(2000), Num(90)) }

FireRows == GridRows \cup EdgeRows

FireTables == {None} \cup {Frame(rows) : rows \in SeqsUpTo(FireRows, MaxFires)}

-----------------------------------------------------------------------------
(* Inputs of the earthquake normalizer                                      *)

MaxQuakes == 2

Quake(lat, lon, time, mag, depth, place, type) ==
    [latitude |-> lat, longitude |-> lon, time |-> time, mag |-> mag,
     depth_km |-> depth, place |-> place, type |-> type]

Tokyo == Str(<<"T", "o", "k", "y", "o">>)

Blast == Str(<<"b", "l", "a", "s", "t">>)

Stamp == Str(<<"2", "0", "2", "6", "Z">>)

\* 35.12345 N 139.54321 E, magnitude 5.85, 10.25 km deep
BaseQuake == Quake(Num(3512345), Num(13954321), Stamp, Num(585), Num(1025), Tokyo, Blast)

\* The base record with one field replaced.
With(key, v) == [BaseQuake EXCEPT ![key] = v]

QuakeRecords ==
    {BaseQuake, Quake(Missing, Missing, Missing, Missing, Missing, Missing, Missing)}
    \cup {With(k, Missing) : k \in DOMAIN BaseQuake}
    \cup {With(k, None) : k \in {"latitude", "mag", "place"}}
    \cup {With("mag", Str(<<"3">>)), With("mag", Str(<<"x">>)), With("mag", Num(312)),
          With("depth_km", Str(<<"-", "x">>))}

\* The source answers with a list, with nothing (None), or fails.
Answer(records) == [ok |-> TRUE, t |-> "list", records |-> records]

NoAnswer == [ok |-> TRUE, t |-> "none", records |-> <<>>]

FetchError == [ok |-> FALSE, t |-> "none", records |-> <<>>]

QuakeAnswers ==
    {NoAnswer, FetchError} \cup {Answer(q) : q \in SeqsUpTo(QuakeRecords, MaxQuakes)}

-----------------------------------------------------------------------------
(* Inputs of a whole run                                                    *)

MaxRunFires == 2

MaxRunQuakes == 2

\* A table without the columns the aggregator reads.
Malformed == [t |-> "malformed", rows |-> <<>>]

RunFireRows ==
    { Row(1234, 5678, DayStart(Today), 30140, NaN, Num(20)),
      Row(1236, 5678, DayStart(Today) - 1, 33349, Num(1255), Num(90)),
      Row(1234, 5678, DayStart(CutDay), 31045, Num(845), Num(50)) }

RunFireTables ==
    {None, Malformed} \cup {Frame(rows) : rows \in SeqsUpTo(RunFireRows, MaxRunFires)}

RunQuakeRecords ==
    { BaseQuake, With("mag", Num(312)), With("mag", Missing), With("latitude", None) }

RunQuakeAnswers ==
    {FetchError} \cup {Answer(q) : q \in SeqsUpTo(RunQuakeRecords, MaxRunQuakes)}

\* The values of the variables of a part of the program that does not run.
RankIdle == value = None /\ rank = NoRank

FireIdle ==
    /\ firmsData = None
    /\ cutoff_date = NaT
    /\ recent_fires = <<>>
    /\ fires = <<>>

QuakeIdle ==
    /\ usgsSource = NoAnswer
    /\ quakes_raw = <<>>
    /\ earthquakes = <<>>

MainIdle ==
    /\ failure = "none"
    /\ end_date = NaT
    /\ output = None
    /\ file = OldFile
    /\ opened = FALSE

InitRank ==
    /\ pc = "rank"
    /\ now = 0
    /\ value \in ConfInputs
    /\ rank = NoRank
    /\ FireIdle /\ QuakeIdle /\ MainIdle

\* A call _confidence_rank(value).
ResolveConfidence ==
    /\ pc = "rank"
    /\ rank' = _confidence_rank(value)
    /\ pc' = "ranked"
    /\ UNCHANGED <<now, failure, value, firmsData, cutoff_date, recent_fires,
                   fires, usgsSource, quakes_raw, earthquakes, end_date, output, file,
          opened>>

SpecRank == InitRank /\ [][ResolveConfidence]_vars

InitFire ==
    /\ pc = "fires"
    /\ now \in DayStart(Today)..(DayStart(Today) + TicksPerDay - 1)
    /\ firmsData \in FireTables
    /\ cutoff_date = NaT
    /\ recent_fires = <<>>
    /\ fires = <<>>
    /\ RankIdle /\ QuakeIdle /\ MainIdle

\* fires = export_fire_events(firms_client, days=Config.EVENT_HISTORY_DAYS)
ExportFireEvents ==
    /\ pc = "fires"
    /\ firmsData.t \in {"none", "frame"}
    /\ LET r == export_fire_events(firmsData, now, EVENT_HISTORY_DAYS)
       IN  /\ cutoff_date' = r.cutoff_date
           /\ recent_fires' = r.recent_fires
           /\ fires' = r.fires
    /\ pc' = "quakes"
    /\ UNCHANGED <<now, failure, value, rank, firmsData, usgsSource, quakes_raw,
                   earthquakes, end_date, output, file, opened>>

SpecFire == InitFire /\ [][ExportFireEvents]_vars

InitQuake ==
    /\ pc = "quakes"
    /\ now = DayStart(Today)
    /\ usgsSource \in QuakeAnswers
    /\ quakes_raw = <<>>
    /\ earthquakes = <<>>
    /\ RankIdle /\ FireIdle /\ MainIdle

\* earthquakes = export_earthquake_events(usgs_client, ...): the fetch
\* answers and every record converts. The date range of the query (lines
\* 166-174) is for the source to apply; its answer is taken as it comes.
ExportEarthquakeEvents ==
    /\ pc = "quakes"
    /\ usgsSource.ok
    /\ \A i \in DOMAIN usgsSource.records : Converts(usgsSource.records[i])
    /\ quakes_raw' = usgsSource.records
    /\ earthquakes' = [i \in DOMAIN usgsSource.records |-> Earthquake(usgsSource.records[i])]
    /\ pc' = "range"
    /\ UNCHANGED <<now, failure, value, rank, firmsData, cutoff_date, recent_fires,
                   fires, usgsSource, end_date, output, file, opened>>

\* (faulty variant: main catches the exception and goes on with no
\* earthquakes)
ExportEarthquakeEventsSwallowed ==
    /\ pc = "quakes"
    /\ ~usgsSource.ok \/ \E i \in DOMAIN usgsSource.records : ~Converts(usgsSource.records[i])
    /\ quakes_raw' = IF usgsSource.ok THEN usgsSource.records ELSE quakes_raw
    /\ pc' = "range"
    /\ UNCHANGED <<now, failure, value, rank, firmsData, cutoff_date, recent_fires,
                   fires, usgsSource, earthquakes, end_date, output, file, opened>>

\* The fetch raises, or float() raises on a record (line 184-188): the
\* exception leaves export_earthquake_events and main.
ExportEarthquakeEventsRaises ==
    /\ pc = "quakes"
    /\ ~usgsSource.ok \/ \E i \in DOMAIN usgsSource.records : ~Converts(usgsSource.records[i])
    /\ quakes_raw' = IF usgsSource.ok THEN usgsSource.records ELSE quakes_raw
    /\ failure' = IF usgsSource.ok THEN "normalize" ELSE "fetch"
    /\ pc' = "failed"
    /\ UNCHANGED <<now, value, rank, firmsData, cutoff_date, recent_fires, fires,
                   usgsSource, earthquakes, end_date, output, file, opened>>

NextQuake == ExportEarthquakeEvents \/ ExportEarthquakeEventsRaises

SpecQuake == InitQuake /\ [][NextQuake]_vars

-----------------------------------------------------------------------------
(* A run of main()                                                          *)

Init ==
    /\ pc = "start"
    /\ now \in DayStart(Today)..(DayStart(Today) + TicksPerDay - 1)
    /\ firmsData \in RunFireTables
    /\ cutoff_date = NaT
    /\ recent_fires = <<>>
    /\ fires = <<>>
    /\ usgsSource \in RunQuakeAnswers
    /\ quakes_raw = <<>>
    /\ earthquakes = <<>>
    /\ RankIdle /\ MainIdle

\* The clock advances while the run goes on, up to the first tick of
\* tomorrow.
Tick ==
    /\ pc \notin {"done", "failed"}
    /\ now < DayStart(Today + 1)
    /\ now' = now + 1
    /\ UNCHANGED <<pc, failure, value, rank, firmsData, cutoff_date, recent_fires,
                   fires, usgsSource, quakes_raw, earthquakes, end_date, output,
                   file, opened>>

\* lines 200-212: the output directory and the two clients
Start ==
    /\ pc = "start"
    /\ pc' = "fires"
    /\ UNCHANGED <<now, failure, value, rank, firmsData, cutoff_date, recent_fires,
                   fires, usgsSource, quakes_raw, earthquakes, end_date, output,
                   file, opened>>

\* mkdir or a client's constructor raises
StartRaises ==
    /\ pc = "start"
    /\ failure' = "clients"
    /\ pc' = "failed"
    /\ UNCHANGED <<now, value, rank, firmsData, cutoff_date, recent_fires, fires,
                   usgsSource, quakes_raw, earthquakes, end_date, output, file,
                   opened>>

\* export_fire_events raises on a table without its columns (line 102)
ExportFireEventsRaises ==
    /\ pc = "fires"
    /\ firmsData.t = "malformed"
    /\ failure' = "fires"
    /\ pc' = "failed"
    /\ UNCHANGED <<now, value, rank, firmsData, cutoff_date, recent_fires, fires,
                   usgsSource, quakes_raw, earthquakes, end_date, output, file,
                   opened>>

\* lines 230-231: end_date = datetime.utcnow() (start_date follows from it)
ReadDateRange ==
    /\ pc = "range"
    /\ end_date' = now
    /\ pc' = "build"
    /\ UNCHANGED <<now, failure, value, rank, firmsData, cutoff_date, recent_fires,
                   fires, usgsSource, quakes_raw, earthquakes, output, file, opened>>

\* lines 234-255
BuildOutput ==
    /\ pc = "build"
    /\ output' = Document(fires, earthquakes, end_date, now)
    /\ pc' = "open"
    /\ UNCHANGED <<now, failure, value, rank, firmsData, cutoff_date, recent_fires,
                   fires, usgsSource, quakes_raw, earthquakes, end_date, file, opened>>

\* line 261: open(..., 'w') truncates the file
OpenFile ==
    /\ pc = "open"
    /\ file' = [content |-> "new", chunks |-> 0]
    /\ opened' = TRUE
    /\ pc' = "write"
    /\ UNCHANGED <<now, failure, value, rank, firmsData, cutoff_date, recent_fires,
                   fires, usgsSource, quakes_raw, earthquakes, end_date, output>>

\* open raises (permission denied): nothing is opened
OpenRaises ==
    /\ pc = "open"
    /\ failure' = "open"
    /\ pc' = "failed"
    /\ UNCHANGED <<now, value, rank, firmsData, cutoff_date, recent_fires, fires,
                   usgsSource, quakes_raw, earthquakes, end_date, output, file,
                   opened>>

\* line 262: json.dump writes the next piece
WriteChunk ==
    /\ pc = "write"
    /\ file.chunks < DocChunks(output)
    /\ file' = [file EXCEPT !.chunks = @ + 1]
    /\ UNCHANGED <<pc, now, failure, value, rank, firmsData, cutoff_date,
                   recent_fires, fires, usgsSource, quakes_raw, earthquakes,
                   end_date, output, opened>>

\* line 262: a write raises (disk full); the with block closes the file
WriteRaises ==
    /\ pc = "write"
    /\ file.chunks < DocChunks(output)
    /\ failure' = "write"
    /\ pc' = "failed"
    /\ UNCHANGED <<now, value, rank, firmsData, cutoff_date, recent_fires, fires,
                   usgsSource, quakes_raw, earthquakes, end_date, output, file,
                   opened>>

\* lines 262-274: the file is closed and the statistics are printed
Finish ==
    /\ pc = "write"
    /\ file.chunks = DocChunks(output)
    /\ pc' = "done"
    /\ UNCHANGED <<now, failure, value, rank, firmsData, cutoff_date, recent_fires,
                   fires, usgsSource, quakes_raw, earthquakes, end_date, output,
                   file, opened>>

Next ==
    \/ Tick
    \/ Start
    \/ StartRaises
    \/ ExportFireEvents
    \/ ExportFireEventsRaises
    \/ ExportEarthquakeEvents
    \/ ExportEarthquakeEventsRaises
    \/ ReadDateRange
    \/ BuildOutput
    \/ OpenFile
    \/ OpenRaises
    \/ WriteChunk
    \/ WriteRaises
    \/ Finish

Spec == Init /\ [][Next]_vars

HighWords == {<<"h", "i", "g", "h">>, <<"h">>}

NominalWords == {<<"n", "o", "m", "i", "n", "a", "l">>, <<"n">>}

LowWords == {<<"l", "o", "w">>, <<"l">>}

NumericRule(n, r) ==
    /\ n >= 80 => r = 2
    /\ (30 <= n /\ n < 80) => r = 1
    /\ n < 30 => r = 0

\* The rule of the claim for a string whose text to match is w and whose
\* numeric parse is p.
StringRule(w, p, r) ==
    /\ w \in HighWords => r = 2
    /\ w \in NominalWords => r = 1
    /\ w \in LowWords => r = 0
    /\ w \notin HighWords \cup NominalWords \cup LowWords =>
        /\ (p.ok /\ p.f.t = "num") => NumericRule(p.f.v, r)
        /\ (~p.ok \/ p.f.t = "nan") => r = 0

\* stripped: whether the string is matched without its surrounding whitespace
RankRule(stripped) ==
    pc = "ranked" =>
        /\ rank \in {0, 1, 2}
        /\ value.t \in {"none", "nan"} => rank = 0
        /\ value.t = "num" => NumericRule(value.v, rank)
        /\ value.t = "str" =>
            StringRule(Lower(IF stripped THEN Strip(value.s) ELSE value.s),
                       ParseFloat(value.s), rank)

\* C2 as stated: a string is matched case-insensitively against the words,
\* as it stands.
C2_RankAsStated == RankRule(FALSE)

\* C2 amended: _confidence_rank returns 2 for a score >= 80, 1 for
\* 30 <= score < 80, 0 for a score < 30 and for an absent or unparsable
\* value; a string is matched case-insensitively, after its surrounding
\* whitespace is removed, against {high,h} / {nominal,n} / {low,l}, and is
\* otherwise parsed and ranked by the numeric rule (0 when the parse fails).
C2_RankRule == RankRule(TRUE)

C2_Witness ==
    /\ pc = "ranked"
    /\ value = Str(<<" ", "h", "i", "g", "h", " ">>)
    /\ rank = 2

-----------------------------------------------------------------------------
(* Claims about export_fire_events, under SpecFire                          *)

FireDone == pc = "quakes"

\* k (tenths) is the multiple of 0.1 nearest to c (hundredths); of the two
\* candidates of a tie, the even one.
Nearest(c, k) ==
    \/ Abs(c - 10 * k) < 5
    \/ Abs(c - 10 * k) = 5 /\ k % 2 = 0

InCell(row, f) == Nearest(row.latitude, f.lat) /\ Nearest(row.longitude, f.lon)

CellMembers(f) == {i \in DOMAIN recent_fires : InCell(recent_fires[i], f)}

Counts == [k \in DOMAIN fires |-> fires[k].count]

\* The current UTC date less the window.
WindowStart == DateOf(now) - EVENT_HISTORY_DAYS

InWindow(row) == DateOf(row.acq_date) >= WindowStart

\* C3: the recency filter keeps a detection iff its acquisition date is
\* >= (current UTC date - days), whatever the time of day: every kept
\* detection is counted in the record of its cell, whose dates span it, and
\* no record reaches back before the cutoff date.
C3_RecencyFilter ==
    (FireDone /\ firmsData.t = "frame") =>
        /\ recent_fires = SelectSeq(firmsData.rows, InWindow)
        /\ SeqSum(Counts) = Cardinality({i \in DOMAIN firmsData.rows :
                                            InWindow(firmsData.rows[i])})
        /\ \A i \in DOMAIN firmsData.rows :
            InWindow(firmsData.rows[i]) =>
                \E k \in DOMAIN fires :
                    /\ InCell(firmsData.rows[i], fires[k])
                    /\ fires[k].date_first <= DateOf(firmsData.rows[i].acq_date)
                    /\ DateOf(firmsData.rows[i].acq_date) <= fires[k].date
        /\ \A k \in DOMAIN fires : fires[k].date_first >= WindowStart

\* A detection of the first tick of the cutoff day is kept late in the day,
\* and one of the last tick of the day before is dropped.
C3_Witness ==
    /\ FireDone /\ firmsData.t = "frame"
    /\ now = DayStart(Today) + TicksPerDay - 1
    /\ \E i \in DOMAIN firmsData.rows : firmsData.rows[i].acq_date = DayStart(CutDay)
    /\ \E i \in DOMAIN firmsData.rows : firmsData.rows[i].acq_date = DayStart(CutDay) - 1
    /\ Len(recent_fires) = Len(firmsData.rows) - 1
    /\ \E k \in DOMAIN fires : fires[k].date_first = CutDay

\* C5: every detection that passed the filter is counted in exactly one
\* record, that of its coordinates rounded to 0.1 degree: counts are >= 1,
\* no two records share (lat, lon), each record counts the detections of its
\* cell, and the counts sum to the number of detections that passed.
C5_OneCellPerDetection ==
    FireDone =>
        /\ \A k \in DOMAIN fires : fires[k].count >= 1
        /\ \A j, k \in DOMAIN fires :
            j # k => <<fires[j].lat, fires[j].lon>> # <<fires[k].lat, fires[k].lon>>
        /\ \A i \in DOMAIN recent_fires :
            Cardinality({k \in DOMAIN fires : InCell(recent_fires[i], fires[k])}) = 1
        /\ \A k \in DOMAIN fires : fires[k].count = Cardinality(CellMembers(fires[k]))
        /\ SeqSum(Counts) = Len(recent_fires)

\* Three detections passed, two of them in one cell and one in another.
C5_Witness ==
    /\ FireDone
    /\ Len(recent_fires) = 3
    /\ Len(fires) = 2
    /\ \E k \in DOMAIN fires : fires[k].count = 2

Scenario ==
    /\ FireDone /\ firmsData.t = "frame"
    /\ Len(firmsData.rows) = 3
    /\ \A i \in 1..3 : InWindow(firmsData.rows[i])
    /\ {firmsData.rows[i].confidence : i \in 1..3} = {Num(20), Num(50), Num(90)}

WithinHalfTenth(a, b) ==
    /\ Abs(a.latitude - b.latitude) <= 5
    /\ Abs(a.longitude - b.longitude) <= 5

OneHighRecordOfThree ==
    /\ Len(fires) = 1
    /\ fires[1].confidence = "high"
    /\ fires[1].count = 3

\* C6 as stated: three detections within 0.05 degree of each other, inside
\* the window, with confidences 20, 50 and 90, give exactly one record,
\* "high", of count 3.
C6_ScenarioAsStated ==
    (Scenario /\ \A i, j \in 1..3 : WithinHalfTenth(firmsData.rows[i], firmsData.rows[j]))
        => OneHighRecordOfThree

\* C6 amended: three detections inside the window whose coordinates round
\* to the same 0.1-degree cell, with confidences 20, 50 and 90, give
\* exactly one record, that of the cell, "high", of count 3.
C6_ScenarioSameCell ==
    \A a \in 120..130, b \in 565..570 :
        (Scenario /\ \A i \in 1..3 : InCell(firmsData.rows[i], [lat |-> a, lon |-> b]))
            => (OneHighRecordOfThree /\ fires[1].lat = a /\ fires[1].lon = b)

\* The three detections lie at 12.35, 12.36 and 12.45, all of cell 12.4.
C6_Witness ==
    /\ Scenario
    /\ {firmsData.rows[i].latitude : i \in 1..3} = {1235, 1236, 1245}
    /\ OneHighRecordOfThree
    /\ fires[1].lat = 124

RanksOf(f) == {_confidence_rank(recent_fires[i].confidence) : i \in CellMembers(f)}

-----------------------------------------------------------------------------
(* Claims about export_earthquake_events, under SpecQuake                   *)

Unusable(v) ==
    \/ v \in {Missing, None}
    \/ v.t = "str" /\ ~ParseFloat(v.s).ok

Defaulted(raw, out) ==
    /\ Unusable(raw.latitude) => out.lat = Num(0)
    /\ Unusable(raw.longitude) => out.lon = Num(0)
    /\ Unusable(raw.mag) => out.magnitude = Num(0)
    /\ Unusable(raw.depth_km) => out.depth = Num(0)
    /\ raw.place \in {Missing, None} => out.place = UnknownPlace
    /\ raw.type \in {Missing, None} => out.type = EarthquakeType
    /\ raw.time # Missing => out.date = raw.time

\* C7: for every sequence of raw records the source returns, records with
\* a missing, null or unparsable field included, export_earthquake_events
\* returns, without failing, one record per raw record, with the default in
\* place of each such field and the timestamp as it came.
C7_DefaultsNeverAbort ==
    usgsSource.ok =>
        /\ pc # "failed"
        /\ pc = "range" =>
            /\ Len(earthquakes) = Len(usgsSource.records)
            /\ \A i \in DOMAIN earthquakes :
                Defaulted(usgsSource.records[i], earthquakes[i])

-----------------------------------------------------------------------------
(* Claims about main, under Spec                                            *)

OutputBuilt ==
    \/ pc \in {"open", "write", "done"}
    \/ pc = "failed" /\ failure \in {"open", "write"}

ProducerFailures == {"clients", "fires", "fetch", "normalize"}

ProducersReturned ==
    /\ failure \notin ProducerFailures
    /\ firmsData.t # "malformed"
    /\ usgsSource.ok
    /\ \A i \in DOMAIN usgsSource.records : Converts(usgsSource.records[i])
    /\ Len(earthquakes) = Len(usgsSource.records)

\* C1: when a producer (or the client it calls) fails, the run ends with
\* the output file never opened nor written and no document built; the
\* file is opened only after both producers have returned.
C1_NoWriteAfterProducerFailure ==
    /\ failure \in ProducerFailures =>
        (pc = "failed" /\ ~opened /\ file = OldFile /\ output = None)
    /\ opened => ProducersReturned

\* The aggregator returned records and the normalizer then failed.
C1_Witness ==
    /\ pc = "failed"
    /\ failure = "normalize"
    /\ Len(fires) > 0
    /\ file = OldFile

RangeOf(S, r) ==
    IF S = {} THEN r = [min |-> 0, max |-> 0]
    ELSE /\ r.min \in S /\ \A x \in S : r.min <= x
         /\ r.max \in S /\ \A x \in S : x <= r.max

\* C4: in every document built, total_fires and total_earthquakes are the
\* lengths of its fires and earthquakes, the brightness and magnitude
\* ranges are the min and max over those very records, and an empty
\* category has the range {min: 0, max: 0}.
C4_StatisticsOfSameDocument ==
    OutputBuilt =>
        /\ output.statistics.total_fires = Len(output.fires)
        /\ output.statistics.total_earthquakes = Len(output.earthquakes)
        /\ RangeOf({output.fires[i].brightness : i \in DOMAIN output.fires},
                   output.statistics.fire_brightness_range)
        /\ RangeOf({output.earthquakes[i].magnitude.v : i \in DOMAIN output.earthquakes},
                   output.statistics.earthquake_magnitude_range)

\* A finished run whose document holds no fire and two earthquakes, the
\* stronger one first.
C4_Witness ==
    /\ pc = "done"
    /\ output.fires = <<>>
    /\ output.statistics.fire_brightness_range = [min |-> 0, max |-> 0]
    /\ Len(output.earthquakes) = 2
    /\ output.earthquakes[1].magnitude.v > output.earthquakes[2].magnitude.v
    /\ output.statistics.earthquake_magnitude_range.min = output.earthquakes[2].magnitude.v

\* C9: at every point of a run the output file holds either what it held
\* before the run or the complete document.
C9_NeverPartial ==
    \/ file = OldFile
    \/ /\ file.content = "new"
       /\ OutputBuilt
       /\ file.chunks = DocChunks(output)

\* C10: every fire record of a document lies inside the data_range of the
\* same document, however the clock advanced between the reads.
C10_FireDatesInsideRange ==
    OutputBuilt =>
        \A i \in DOMAIN output.fires :
            /\ output.fires[i].date_first >= output.data_range.start
            /\ output.fires[i].date <= output.data_range.end

=============================================================================
